---------------------------- MODULE Spec2Model ----------------------------
(***************************************************************************)
(* A model of iris_shader_options.py: the screen graph built from          *)
(* shaders.properties, the recursive breadcrumb resolution, the report     *)
(* builder and the batch / single-file driver of main().                   *)
(*                                                                         *)
(* Text is modelled by TLA+ strings (Len, SubSeq and \o act on them), so   *)
(* prefix stripping, tokenizing and joining are computed character by      *)
(* character as the Python code computes them.                             *)
(*                                                                         *)
(* An optional value (Python's None or a value) is a sequence of length 0  *)
(* or 1.  A dict that is iterated is a sequence of [key, val] records with *)
(* distinct keys in insertion order; a dict that is only looked up is a    *)
(* function.                                                               *)
(***************************************************************************)
EXTENDS Integers, Sequences, FiniteSets, TLC

VARIABLES
    pc,                         \* position in main / get_shader_options_readable
    input_kind,                 \* args.input_path: "dir", "file" or "other"
    output_path,                \* args.output_path: "False", "None" or "path"
    glob_left,                  \* options files the glob has still to yield
    file_no,                    \* number of options files attempted so far
    path_type,                  \* "Path", "ZipPath" or "unset"
    shader_options_properties,  \* getPropertyDict() of the options file
    shader_lang_properties,     \* the .lang file, key -> label
    shader_properties,          \* getPropertyDict() of shaders.properties
    screen_properties,          \* screen name -> ScreenProperty, in dict order
    screen_screen_names,        \* child screen name -> parent screen name
    option_screen_names,        \* option -> owning screen name
    item_idx,                   \* items of the options dict consumed by the join
    label,                      \* option label of the item being formatted
    lines,                      \* strings the generator has yielded so far
    callee,                     \* argument of the get_screen_path call being entered
    stack,                      \* get_screen_path frames waiting for their parent's path
    path_ret,                   \* value returned by the last get_screen_path frame
    output,                     \* the report returned to main
    err,                        \* the exception being raised
    emitted,                    \* what main last printed or wrote
    exit_status,                \* "running", "0", "1" or "traceback"
    screen_property,            \* argument of parse_screen_property (SpecParse)
    parsed                      \* its result (SpecParse)

vars == <<pc, input_kind, output_path, glob_left, file_no, path_type,
          shader_options_properties, shader_lang_properties, shader_properties,
          screen_properties, screen_screen_names, option_screen_names,
          item_idx, label, lines, callee, stack, path_ret, output, err,
          emitted, exit_status, screen_property, parsed>>

\* ------------------------------------------------------------ bounds

\* Options files the glob yields in a batch run.
NumFiles == 2

\* Interpreter recursion limit, counted in get_screen_path frames
\* (sys.getrecursionlimit() scaled down; larger than any acyclic chain modelled).
RecursionLimit == 5

\* Longest membership string parsed in SpecParse.
MaxLen == 5

\* ------------------------------------------------------------ strings

CharAt(s, i) == SubSeq(s, i, i)

Chars(s) == {CharAt(s, i) : i \in 1..Len(s)}

Whitespace == {" ", "\t"}

\* str.startswith
startswith(s, prefix) ==
    /\ Len(s) >= Len(prefix)
    /\ SubSeq(s, 1, Len(prefix)) = prefix

\* str.lstrip(chars): drops every leading character that is a member of chars.
RECURSIVE lstrip(_, _)
lstrip(s, chars) ==
    IF Len(s) > 0 /\ CharAt(s, 1) \in Chars(chars)
    THEN lstrip(SubSeq(s, 2, Len(s)), chars)
    ELSE s

\* str.rstrip(chars)
RECURSIVE rstrip(_, _)
rstrip(s, chars) ==
    IF Len(s) > 0 /\ CharAt(s, Len(s)) \in Chars(chars)
    THEN rstrip(SubSeq(s, 1, Len(s) - 1), chars)
    ELSE s

\* str.endswith
endswith(s, suffix) ==
    /\ Len(s) >= Len(suffix)
    /\ SubSeq(s, Len(s) - Len(suffix) + 1, Len(s)) = suffix

\* str.split() without arguments: the maximal runs of non-whitespace, in order.
RECURSIVE SplitFrom(_, _, _, _)
SplitFrom(s, i, cur, acc) ==
    LET flushed == IF cur = "" THEN acc ELSE Append(acc, cur) IN
    IF i > Len(s) THEN flushed
    ELSE IF CharAt(s, i) \in Whitespace
         THEN SplitFrom(s, i + 1, "", flushed)
         ELSE SplitFrom(s, i + 1, cur \o CharAt(s, i), acc)

split(s) == SplitFrom(s, 1, "", <<>>)

\* "".join(parts)
RECURSIVE join(_)
join(parts) ==
    IF parts = <<>> THEN "" ELSE Head(parts) \o join(Tail(parts))

\* ", ".join(parts)
RECURSIVE join_comma(_)
join_comma(parts) ==
    IF parts = <<>> THEN ""
    ELSE IF Len(parts) = 1 THEN Head(parts)
    ELSE Head(parts) \o ", " \o join_comma(Tail(parts))

\* ------------------------------------------------------------ dicts

\* d[key] = val on an insertion-ordered dict: a new key goes last, a key
\* already present keeps its position and takes the new value.
DictSet(d, key, val) ==
    IF \E i \in 1..Len(d) : d[i].key = key
    THEN [i \in 1..Len(d) |-> IF d[i].key = key THEN [key |-> key, val |-> val] ELSE d[i]]
    ELSE Append(d, [key |-> key, val |-> val])

\* The dict a Properties object holds after loading the entries of a file in order.
RECURSIVE LoadEntries(_, _)
LoadEntries(entries, d) ==
    IF entries = <<>> THEN d
    ELSE LoadEntries(Tail(entries), DictSet(d, Head(entries).key, Head(entries).val))

getPropertyDict(entries) == LoadEntries(entries, <<>>)

\* Properties.getProperty(key): the value, or the empty string for a key
\* the properties do not hold.
getProperty(props, key) ==
    IF key \in DOMAIN props THEN props[key] ELSE ""

\* ------------------------------------------------------------ parse_screen_property

\* IsScreenPart testing the opening bracket only.
IsScreenPart_OpenOnly(part) ==
    CharAt(part, 1) = "["

\* Line 38.
IsScreenPart(part) ==
    CharAt(part, 1) = "[" /\ CharAt(part, Len(part)) = "]"

\* Line 40.
IsDecorationPart(part) ==
    CharAt(part, 1) = "<" /\ CharAt(part, Len(part)) = ">"

RECURSIVE ParseParts(_, _, _)
ParseParts(parts, screen_names, options) ==
    IF parts = <<>> THEN [screen_names |-> screen_names, options |-> options]
    ELSE LET part == Head(parts) IN
         IF IsScreenPart(part)
         THEN ParseParts(Tail(parts),
                         screen_names \cup {SubSeq(part, 2, Len(part) - 1)}, options)
         ELSE IF ~IsDecorationPart(part)
         THEN ParseParts(Tail(parts), screen_names, options \cup {part})
         ELSE ParseParts(Tail(parts), screen_names, options)

parse_screen_property(s) == ParseParts(split(s), {}, {})

\* ------------------------------------------------------------ the screen graph

\* The screen name recorded for a "screen.<name>" key (line 70).
ScreenNameOf(prop) == lstrip(prop, "screen.")

\* Line 70: the dict comprehension over the items of shaders.properties.
RECURSIVE BuildScreenProperties(_, _)
BuildScreenProperties(items, d) ==
    IF items = <<>> THEN d
    ELSE LET prop == Head(items).key
             val  == Head(items).val
         IN  IF startswith(prop, "screen.")
             THEN BuildScreenProperties(Tail(items),
                      DictSet(d, ScreenNameOf(prop), parse_screen_property(val)))
             ELSE BuildScreenProperties(Tail(items), d)

\* RecordAll keeping the screen a name already maps to (first writer wins).
RecordAll_KeepFirst(index, names, prop) ==
    [x \in (DOMAIN index) \cup names |-> IF x \in DOMAIN index THEN index[x] ELSE prop]

\* One screen's contribution to a reverse index: every listed name now maps to prop.
RecordAll(index, names, prop) ==
    [x \in (DOMAIN index) \cup names |-> IF x \in names THEN prop ELSE index[x]]

\* Line 71: child screen name -> the screen listing it.
RECURSIVE BuildScreenScreenNames(_, _)
BuildScreenScreenNames(items, index) ==
    IF items = <<>> THEN index
    ELSE BuildScreenScreenNames(Tail(items),
             RecordAll(index, Head(items).val.screen_names, Head(items).key))

\* Line 72: option -> the screen listing it.
RECURSIVE BuildOptionScreenNames(_, _)
BuildOptionScreenNames(items, index) ==
    IF items = <<>> THEN index
    ELSE BuildOptionScreenNames(Tail(items),
             RecordAll(index, Head(items).val.options, Head(items).key))

EmptyIndex == [x \in {} |-> ""]

\* ------------------------------------------------------------ file contents

Entry(k, v) == [key |-> k, val |-> v]

\* A dict that is only looked up, as a function.
AsFunction(d) ==
    [k \in {d[i].key : i \in 1..Len(d)} |->
        (CHOOSE i \in 1..Len(d) : d[i].key = k) ]

Lookup(d) ==
    LET at == AsFunction(d) IN [k \in DOMAIN at |-> d[at[k]].val]

Without(f, k) == [x \in (DOMAIN f) \ {k} |-> f[x]]

\* shaders.properties files, as the entries the properties parser reads in order.
ExampleScreens ==
    << Entry("screen.Shadows", "[Quality] shadowDistance"),
       Entry("screen.Quality", "blockiness") >>

CyclicScreens ==
    << Entry("screen.Shadows", "[Quality] shadowDistance"),
       Entry("screen.Quality", "[Shadows] blockiness") >>

SelfCyclicScreens ==
    << Entry("screen.Quality", "[Quality] blockiness") >>

DeepScreens ==
    << Entry("screen", "[Main]"),
       Entry("screen.Main", "[Shadows] <empty>"),
       Entry("screen.Shadows", "  [Quality]   shadowDistance "),
       Entry("screen.Quality", "<profile> blockiness [x") >>

TwoParentScreens ==
    << Entry("screen.Shadows", "[Quality] shadowDistance blockiness"),
       Entry("screen.Other", "[Quality] shadowDistance"),
       Entry("screen.Quality", "blockiness") >>

RedefinedScreens ==
    << Entry("screen.Shadows", "[Quality]"),
       Entry("screen.Other", "[Quality] blockiness"),
       Entry("screen.Shadows", "[Quality] shadowDistance") >>

SkyScreens ==
    << Entry("screen.sky", "[Quality] shadowDistance"),
       Entry("screen.Quality", "blockiness") >>

NestedSkyScreens ==
    << Entry("screen.Main", "[sky] shadowDistance"),
       Entry("screen.sky", "blockiness") >>

CollidingScreens ==
    << Entry("screen.sky", "[Quality] shadowDistance"),
       Entry("screen.Other", "[Quality]"),
       Entry("screen.ky", "[Quality] blockiness") >>

NoScreens ==
    << Entry("sliders", "shadowDistance") >>

ShaderPropertiesFiles ==
    { ExampleScreens, CyclicScreens, SelfCyclicScreens, DeepScreens, TwoParentScreens,
      RedefinedScreens, SkyScreens, NestedSkyScreens, CollidingScreens, NoScreens }

\* Language files.
FullLang ==
    Lookup(<< Entry("screen.Shadows", "Shadow Settings"),
              Entry("screen.Quality", "Quality"),
              Entry("screen.Main", "Main"),
              Entry("screen.Other", "Other"),
              Entry("screen.sky", "Sky"),
              Entry("option.shadowDistance", "Shadow Distance"),
              Entry("option.blockiness", "Blockiness") >>)

LangFiles ==
    { FullLang,
      Without(FullLang, "option.blockiness"),
      Without(FullLang, "screen.Quality"),
      Without(FullLang, "screen.Shadows"),
      [FullLang EXCEPT !["screen.Quality"] = "Low -> High"] }

\* Names found in shaders/lang/ when the requested language cannot be loaded.
LangDirListings ==
    { << >>, << "de_DE.lang", "readme.txt" >>, << "en_gal.lang" >> }

\* Options files.
ShaderOptionsFiles ==
    { << Entry("shadowDistance", "128"), Entry("blockiness", "2") >>,
      << Entry("blockiness", "2"), Entry("shadowDistance", "128") >>,
      << Entry("shadowDistance", "128"), Entry("blockiness", "2"),
         Entry("shadowDistance", "64") >>,
      << Entry("blockiness", "2") >>,
      << Entry("shadowDistance", "128"), Entry("sunAngle", "30") >>,
      << >> }

\* ------------------------------------------------------------ main and the report

\* args.language_code (its default).
LanguageCode == "en_US"

\* shader_base_path.name of the options file being processed.
ShaderName == "pack" \o ToString(file_no)

Exception(type, arg) == << [type |-> type, arg |-> arg] >>

\* JoinPath with the screen's own label put before its parent's path.
JoinPath_LabelFirst(parent_path, lang_screen_name) ==
    lang_screen_name \o " -> " \o parent_path

\* Line 77, the recursive case.
JoinPath(parent_path, lang_screen_name) == parent_path \o " -> " \o lang_screen_name

\* Line 79, one yielded string.
FormatLine(option_label, screen_path, val) ==
    option_label \o " (" \o screen_path \o "): " \o val \o "\n"

\* Line 62: the language names offered in the error message.
RECURSIVE AvailableLangs(_)
AvailableLangs(listing) ==
    IF listing = <<>> THEN <<>>
    ELSE IF endswith(Head(listing), ".lang")
         THEN <<rstrip(Head(listing), ".lang")>> \o AvailableLangs(Tail(listing))
         ELSE AvailableLangs(Tail(listing))

\* The locals of get_shader_options_readable, before the call and after it is left.
NoLocals ==
    /\ path_type = "unset"
    /\ shader_options_properties = <<>>
    /\ shader_lang_properties = EmptyIndex
    /\ shader_properties = <<>>
    /\ screen_properties = <<>>
    /\ screen_screen_names = EmptyIndex
    /\ option_screen_names = EmptyIndex
    /\ item_idx = 0
    /\ label = ""
    /\ lines = <<>>
    /\ callee = <<>>
    /\ stack = <<>>
    /\ path_ret = <<>>

DropLocals ==
    /\ path_type' = "unset"
    /\ shader_options_properties' = <<>>
    /\ shader_lang_properties' = EmptyIndex
    /\ shader_properties' = <<>>
    /\ screen_properties' = <<>>
    /\ screen_screen_names' = EmptyIndex
    /\ option_screen_names' = EmptyIndex
    /\ item_idx' = 0
    /\ label' = ""
    /\ lines' = <<>>
    /\ callee' = <<>>
    /\ stack' = <<>>
    /\ path_ret' = <<>>

argsVars == <<input_kind, output_path>>
parseVars == <<screen_property, parsed>>
loadVars == <<path_type, shader_options_properties, shader_lang_properties, shader_properties>>
graphVars == <<screen_properties, screen_screen_names, option_screen_names>>
joinVars == <<item_idx, label, lines, callee, stack, path_ret>>
mainVars == <<glob_left, file_no, output, emitted, exit_status>>

Init ==
    /\ pc = "main"
    /\ input_kind \in {"dir", "file", "other"}
    /\ output_path \in {"False", "None", "path"}
    /\ glob_left = 0
    /\ file_no = 0
    /\ NoLocals
    /\ output = <<>>
    /\ err = <<>>
    /\ emitted = <<>>
    /\ exit_status = "running"
    /\ screen_property = ""
    /\ parsed = <<>>

\* Raising an exception inside get_shader_options_readable.
Raise(type, arg) ==
    /\ pc' = "raise"
    /\ err' = Exception(type, arg)

\* Lines 87-88: the input is a directory; the glob yields some options files.
MainDir ==
    /\ pc = "main" /\ input_kind = "dir"
    /\ \E n \in 0..NumFiles : glob_left' = n
    /\ pc' = "loop"
    /\ UNCHANGED <<argsVars, parseVars, loadVars, graphVars, joinVars,
                   file_no, output, emitted, exit_status, err>>

\* Lines 100-102: the input is a single options file.
MainFile ==
    /\ pc = "main" /\ input_kind = "file"
    /\ file_no' = 1
    /\ pc' = "call"
    /\ UNCHANGED <<argsVars, parseVars, loadVars, graphVars, joinVars,
                   glob_left, output, emitted, exit_status, err>>

\* Lines 112-114.
MainInvalid ==
    /\ pc = "main" /\ input_kind = "other"
    /\ emitted' = << [dest |-> "stdout", text |-> "Invalid input path [input]"] >>
    /\ exit_status' = "1"
    /\ pc' = "exit"
    /\ UNCHANGED <<argsVars, parseVars, loadVars, graphVars, joinVars,
                   glob_left, file_no, output, err>>

\* Line 88: the loop takes the next options file.
NextFile ==
    /\ pc = "loop" /\ glob_left > 0
    /\ glob_left' = glob_left - 1
    /\ file_no' = file_no + 1
    /\ emitted' = <<>>
    /\ pc' = "call"
    /\ UNCHANGED <<argsVars, parseVars, loadVars, graphVars, joinVars,
                   output, exit_status, err>>

\* Line 88: the glob is exhausted and main returns.
LoopDone ==
    /\ pc = "loop" /\ glob_left = 0
    /\ exit_status' = "0"
    /\ pc' = "exit"
    /\ UNCHANGED <<argsVars, parseVars, loadVars, graphVars, joinVars,
                   glob_left, file_no, output, emitted, err>>

\* Lines 45-52: the shader is a directory, a zip file, or absent.
CheckShader ==
    /\ pc = "call"
    /\ \E found \in {"dir", "zip", "none"} :
          CASE found = "dir"  -> path_type' = "Path" /\ pc' = "load_options" /\ err' = err
            [] found = "zip"  -> path_type' = "ZipPath" /\ pc' = "load_options" /\ err' = err
            [] found = "none" -> /\ path_type' = path_type
                                 /\ Raise("ValueError", "No shader for config [" \o ShaderName \o "]")
    /\ UNCHANGED <<argsVars, parseVars, graphVars, joinVars, mainVars,
                   shader_options_properties, shader_lang_properties, shader_properties>>

\* Lines 54-57.
LoadOptions ==
    /\ pc = "load_options"
    /\ \/ \E file \in ShaderOptionsFiles :
             /\ shader_options_properties' = getPropertyDict(file)
             /\ pc' = "load_lang"
             /\ err' = err
       \/ /\ Raise("ValueError",
                   "No valid shader options file for shader [" \o ShaderName \o "]")
          /\ UNCHANGED shader_options_properties
    /\ UNCHANGED <<argsVars, parseVars, graphVars, joinVars, mainVars,
                   path_type, shader_lang_properties, shader_properties>>

\* Lines 59-63.  When the language file cannot be loaded the handler lists
\* shaders/lang/: Path.iterdir raises FileNotFoundError for a missing directory,
\* zipfile.Path.iterdir raises ValueError.
LoadLang ==
    /\ pc = "load_lang"
    /\ \/ \E file \in LangFiles :
             /\ shader_lang_properties' = file
             /\ pc' = "load_properties"
             /\ err' = err
       \/ /\ \/ \E listing \in LangDirListings :
                   Raise("ValueError",
                         "No valid language file for [" \o LanguageCode \o "] in shader ["
                         \o ShaderName \o "]\nAvailable languages: "
                         \o join_comma(AvailableLangs(listing)))
             \/ /\ path_type = "Path"
                /\ Raise("FileNotFoundError", "shaders/lang")
             \/ /\ path_type = "ZipPath"
                /\ Raise("ValueError", "Can't listdir a file")
          /\ UNCHANGED shader_lang_properties
    /\ UNCHANGED <<argsVars, parseVars, graphVars, joinVars, mainVars,
                   path_type, shader_options_properties, shader_properties>>

\* Lines 65-68.
LoadProperties ==
    /\ pc = "load_properties"
    /\ \/ \E file \in ShaderPropertiesFiles :
             /\ shader_properties' = getPropertyDict(file)
             /\ pc' = "build"
             /\ err' = err
       \/ /\ Raise("ValueError", "No valid properties file for shader [" \o ShaderName \o "]")
          /\ UNCHANGED shader_properties
    /\ UNCHANGED <<argsVars, parseVars, graphVars, joinVars, mainVars,
                   path_type, shader_options_properties, shader_lang_properties>>

\* Lines 70-72.
BuildGraph ==
    /\ pc = "build"
    /\ LET built == BuildScreenProperties(shader_properties, <<>>) IN
          /\ screen_properties' = built
          /\ screen_screen_names' = BuildScreenScreenNames(built, EmptyIndex)
          /\ option_screen_names' = BuildOptionScreenNames(built, EmptyIndex)
    /\ pc' = "join"
    /\ UNCHANGED <<argsVars, parseVars, loadVars, joinVars, mainVars, err>>

\* The item of the options dict the generator formats next.
NextItem == shader_options_properties[item_idx + 1]

\* option_screen_names[prop]: the owning screen, or no value where Python raises KeyError.
OwnerLookup(prop) ==
    IF prop \in DOMAIN option_screen_names THEN << option_screen_names[prop] >> ELSE << >>

\* screen_screen_names.get(screen_name)
ParentLookup(screen_name) ==
    IF screen_name \in DOMAIN screen_screen_names
    THEN << screen_screen_names[screen_name] >> ELSE << >>

\* Line 79: the generator takes the next item, evaluates the option label and
\* looks up the owning screen, then calls get_screen_path on it.
FormatItem ==
    /\ pc = "join" /\ item_idx < Len(shader_options_properties)
    /\ OwnerLookup(NextItem.key) # << >>
    /\ item_idx' = item_idx + 1
    /\ label' = getProperty(shader_lang_properties, "option." \o NextItem.key)
    /\ callee' = OwnerLookup(NextItem.key)
    /\ pc' = "enter_path"
    /\ UNCHANGED <<argsVars, parseVars, loadVars, graphVars, mainVars,
                   lines, stack, path_ret, err>>

\* Line 79: the option is no key of option_screen_names.
FormatItemUnowned ==
    /\ pc = "join" /\ item_idx < Len(shader_options_properties)
    /\ OwnerLookup(NextItem.key) = << >>
    /\ item_idx' = item_idx + 1
    /\ label' = getProperty(shader_lang_properties, "option." \o NextItem.key)
    /\ Raise("KeyError", NextItem.key)
    /\ UNCHANGED <<argsVars, parseVars, loadVars, graphVars, mainVars,
                   lines, callee, stack, path_ret>>

\* Lines 75-77: one get_screen_path frame is entered.  A screen without a parent
\* returns its label; otherwise the frame waits for the path of its parent.
EnterScreenPath ==
    /\ pc = "enter_path" /\ Len(stack) < RecursionLimit
    /\ LET screen_name == callee[1]
           lang_screen_name == getProperty(shader_lang_properties, "screen." \o screen_name)
           parent_screen_name == ParentLookup(screen_name)
       IN  IF parent_screen_name = << >>
           THEN /\ path_ret' = << lang_screen_name >>
                /\ callee' = << >>
                /\ stack' = stack
                /\ pc' = "unwind"
           ELSE /\ stack' = Append(stack, [screen_name |-> screen_name,
                                           lang_screen_name |-> lang_screen_name])
                /\ callee' = parent_screen_name
                /\ path_ret' = path_ret
                /\ pc' = "enter_path"
    /\ UNCHANGED <<argsVars, parseVars, loadVars, graphVars, mainVars,
                   item_idx, label, lines, err>>

\* The interpreter refuses one more frame.
RecursionOverflow ==
    /\ pc = "enter_path" /\ Len(stack) >= RecursionLimit
    /\ Raise("RecursionError", "maximum recursion depth exceeded")
    /\ UNCHANGED <<argsVars, parseVars, loadVars, graphVars, mainVars, joinVars>>

\* Line 77: a waiting frame gets its parent's path and returns.
ReturnScreenPath ==
    /\ pc = "unwind" /\ stack # << >>
    /\ path_ret' = << JoinPath(path_ret[1], stack[Len(stack)].lang_screen_name) >>
    /\ stack' = SubSeq(stack, 1, Len(stack) - 1)
    /\ UNCHANGED <<argsVars, parseVars, loadVars, graphVars, mainVars,
                   pc, item_idx, label, lines, callee, err>>

\* Line 79: the outermost call returned and the generator yields the line.
YieldLine ==
    /\ pc = "unwind" /\ stack = << >>
    /\ lines' = Append(lines, FormatLine(label, path_ret[1],
                                         shader_options_properties[item_idx].val))
    /\ label' = ""
    /\ path_ret' = << >>
    /\ pc' = "join"
    /\ UNCHANGED <<argsVars, parseVars, loadVars, graphVars, mainVars,
                   item_idx, callee, stack, err>>

\* Line 79: the generator is exhausted and the joined report is returned.
JoinDone ==
    /\ pc = "join" /\ item_idx = Len(shader_options_properties)
    /\ output' = << join(lines) >>
    /\ pc' = "return"
    /\ UNCHANGED <<argsVars, parseVars, loadVars, graphVars, joinVars,
                   glob_left, file_no, emitted, exit_status, err>>

\* Where main sends the report (lines 91-97 and 103-108).
Delivery(text) ==
    IF output_path = "False"
    THEN [dest |-> "stdout",
          text |-> IF input_kind = "dir" THEN ShaderName \o "\n" \o text ELSE text]
    ELSE IF output_path = "None"
    THEN [dest |-> ShaderName \o "_readable.txt", text |-> text]
    ELSE IF input_kind = "dir"
    THEN [dest |-> "output/" \o ShaderName \o "_readable.txt", text |-> text]
    ELSE [dest |-> "output", text |-> text]

\* Lines 90-97 and 102-108: the call returned; main prints or writes the report.
Deliver ==
    /\ pc = "return"
    /\ emitted' = << Delivery(output[1]) >>
    /\ output' = << >>
    /\ DropLocals
    /\ IF input_kind = "dir"
       THEN pc' = "loop" /\ exit_status' = exit_status
       ELSE pc' = "exit" /\ exit_status' = "0"
    /\ UNCHANGED <<argsVars, parseVars, glob_left, file_no, err>>

\* Lines 98-99 and 109-111: except ValueError.
CatchValueError ==
    /\ pc = "raise" /\ err[1].type = "ValueError"
    /\ emitted' = << [dest |-> "stdout", text |-> err[1].arg] >>
    /\ err' = << >>
    /\ DropLocals
    /\ IF input_kind = "dir"
       THEN pc' = "loop" /\ exit_status' = exit_status
       ELSE pc' = "exit" /\ exit_status' = "1"
    /\ UNCHANGED <<argsVars, parseVars, glob_left, file_no, output>>

\* Any other exception passes both handlers and ends the interpreter.
Uncaught ==
    /\ pc = "raise" /\ err[1].type # "ValueError"
    /\ exit_status' = "traceback"
    /\ DropLocals
    /\ pc' = "exit"
    /\ UNCHANGED <<argsVars, parseVars, glob_left, file_no, output, emitted, err>>

Next ==
    \/ MainDir \/ MainFile \/ MainInvalid
    \/ NextFile \/ LoopDone
    \/ CheckShader \/ LoadOptions \/ LoadLang \/ LoadProperties
    \/ BuildGraph
    \/ FormatItem \/ FormatItemUnowned
    \/ EnterScreenPath \/ RecursionOverflow \/ ReturnScreenPath \/ YieldLine
    \/ JoinDone
    \/ Deliver \/ CatchValueError \/ Uncaught

Spec == Init /\ [][Next]_vars

\* ------------------------------------------------------------ parse_screen_property alone

ParseAlphabet == {"[", "]", "<", ">", "a", " ", "\t"}

RECURSIVE StringsUpTo(_)
StringsUpTo(n) ==
    IF n = 0 THEN {""}
    ELSE LET shorter == StringsUpTo(n - 1) IN
         shorter \cup {s \o c : s \in shorter, c \in ParseAlphabet}

InitParse ==
    /\ pc = "parse"
    /\ screen_property \in StringsUpTo(MaxLen)
    /\ parsed = << >>
    /\ input_kind = "other"
    /\ output_path = "False"
    /\ glob_left = 0
    /\ file_no = 0
    /\ NoLocals
    /\ output = <<>>
    /\ err = <<>>
    /\ emitted = <<>>
    /\ exit_status = "running"

\* Lines 33-42 applied to the drawn membership string.
Parse ==
    /\ pc = "parse"
    /\ parsed' = << parse_screen_property(screen_property) >>
    /\ pc' = "parsed"
    /\ UNCHANGED <<argsVars, loadVars, graphVars, joinVars, mainVars, err, screen_property>>

NextParse == Parse

SpecParse == InitParse /\ [][NextParse]_vars

\* ------------------------------------------------------------ properties

\* The graph of the current file has been built (line 72 is passed).
GraphBuilt ==
    \/ pc \in {"join", "enter_path", "unwind", "return"}
    \/ pc = "raise" /\ item_idx > 0

OptionKeys == {shader_options_properties[i].key : i \in 1..Len(shader_options_properties)}

RecordedScreens == {screen_properties[i].key : i \in 1..Len(screen_properties)}

\* The option whose line is being formatted, and the screen recorded as its owner.
CurrentOption == shader_options_properties[item_idx].key

CurrentOwner == option_screen_names[CurrentOption]

Resolving ==
    /\ pc \in {"enter_path", "unwind"}
    /\ item_idx > 0

\* The screen n links of the index parent above s, if the links exist.
RECURSIVE AncestorIn(_, _, _)
AncestorIn(parent, s, n) ==
    IF n = 0 THEN << s >>
    ELSE LET below == AncestorIn(parent, s, n - 1) IN
         IF below = << >> THEN << >>
         ELSE IF below[1] \in DOMAIN parent THEN << parent[below[1]] >>
         ELSE << >>

\* More links than there are children can only be followed round a cycle.
ReachesCycleIn(parent, s) == AncestorIn(parent, s, Cardinality(DOMAIN parent) + 1) # << >>

\* Number of links from s up to its root (s not reaching a cycle).
DepthIn(parent, s) ==
    CHOOSE n \in 0..Cardinality(DOMAIN parent) :
        AncestorIn(parent, s, n) # << >> /\ AncestorIn(parent, s, n + 1) = << >>

ScreenLabel(s) ==
    IF ("screen." \o s) \in DOMAIN shader_lang_properties
    THEN shader_lang_properties["screen." \o s] ELSE ""

\* Labels from the root (first) down to s (last).
ChainLabelsIn(parent, s) ==
    [i \in 1..(DepthIn(parent, s) + 1) |->
        ScreenLabel(AncestorIn(parent, s, DepthIn(parent, s) + 1 - i)[1])]

\* The same over the parent index the program built.
Ancestor(s, n) == AncestorIn(screen_screen_names, s, n)

ReachesCycle(s) == ReachesCycleIn(screen_screen_names, s)

Depth(s) == DepthIn(screen_screen_names, s)

ChainLabels(s) == ChainLabelsIn(screen_screen_names, s)

RECURSIVE JoinArrow(_)
JoinArrow(segments) ==
    IF Len(segments) = 1 THEN segments[1]
    ELSE JoinArrow(SubSeq(segments, 1, Len(segments) - 1)) \o " -> " \o segments[Len(segments)]

\* Occurrences of " -> " in s, scanned left to right without overlap.
RECURSIVE ArrowsFrom(_, _)
ArrowsFrom(s, i) ==
    IF i + 3 > Len(s) THEN 0
    ELSE IF SubSeq(s, i, i + 3) = " -> " THEN 1 + ArrowsFrom(s, i + 4)
    ELSE ArrowsFrom(s, i + 1)

SegmentCount(s) == ArrowsFrom(s, 1) + 1

ArrowFree(segments) == \A i \in 1..Len(segments) : ArrowsFrom(segments[i], 1) = 0

\* C2: for an owning screen that reaches no cycle, resolution never holds more
\* frames than the screen's depth, and the path it returns is the labels of the
\* ancestors from the root down to the owning screen joined by " -> ": depth+1
\* segments, the label alone for a screen without parent.
C2_PathIsRootToOwnerLabels ==
    /\ (Resolving /\ ~ReachesCycle(CurrentOwner)) => Len(stack) <= Depth(CurrentOwner)
    /\ (Resolving /\ pc = "unwind" /\ stack = << >>) =>
          /\ ~ReachesCycle(CurrentOwner)
          /\ Len(ChainLabels(CurrentOwner)) = Depth(CurrentOwner) + 1
          /\ path_ret[1] = JoinArrow(ChainLabels(CurrentOwner))
          /\ ArrowFree(ChainLabels(CurrentOwner)) =>
                SegmentCount(path_ret[1]) = Depth(CurrentOwner) + 1

\* C2 witness: the outermost call returned for a screen two parent links deep.
C2_Witness ==
    /\ Resolving /\ pc = "unwind" /\ stack = << >>
    /\ Depth(CurrentOwner) = 2
    /\ ArrowFree(ChainLabels(CurrentOwner))

\* C1: resolution on a cyclic parent relation stops within as many frames as
\* there are screens, with a cyclic-graph error rather than an interpreter failure.
C1_CycleRejectedWithinScreenCount ==
    /\ Resolving => Len(stack) <= Len(screen_properties)
    /\ (pc = "raise" /\ item_idx > 0 /\ CurrentOption \in DOMAIN option_screen_names
          /\ ReachesCycle(CurrentOwner)) => err[1].type = "CyclicScreenGraph"

\* The exceptions main reports and survives: both handlers are except ValueError.
ReportedError == err # << >> /\ err[1].type = "ValueError"

\* C3: once the generator reaches an option that no screen lists, the call has
\* failed with an error main reports for that file, and no report is returned
\* for a file holding such an option.
C3_UnownedOptionIsReportedFileError ==
    /\ pc = "return" => OptionKeys \subseteq DOMAIN option_screen_names
    /\ (GraphBuilt /\ item_idx > 0 /\ CurrentOption \notin DOMAIN option_screen_names) =>
          /\ pc = "raise"
          /\ output = << >>
          /\ ReportedError

HasOptionLabel(i) ==
    ("option." \o shader_options_properties[i].key) \in DOMAIN shader_lang_properties

\* The yielded lines of the options that have a label, in order.
RECURSIVE LabelledLines(_)
LabelledLines(i) ==
    IF i > Len(lines) THEN ""
    ELSE (IF HasOptionLabel(i) THEN lines[i] ELSE "") \o LabelledLines(i + 1)

\* Every screen from s up to its root has a "screen.<name>" label.
ChainLabelled(s) ==
    \A n \in 0..Depth(s) :
        ("screen." \o Ancestor(s, n)[1]) \in DOMAIN shader_lang_properties

\* C4: when all needed screen labels exist, an option without an "option.<key>"
\* label contributes no line; the report returned is exactly the lines of the
\* other options, in order.
C4_UnlabelledOptionSkipped ==
    (pc = "return" /\ \A k \in OptionKeys : ChainLabelled(option_screen_names[k])) =>
        output[1] = LabelledLines(1)

\* The recorded screen names are the names shaders.properties declares.
NamesIntact ==
    RecordedScreens =
        { SubSeq(shader_properties[i].key, 8, Len(shader_properties[i].key)) :
            i \in { j \in 1..Len(shader_properties) :
                      /\ Len(shader_properties[j].key) >= 7
                      /\ SubSeq(shader_properties[j].key, 1, 7) = "screen." } }

\* C5: no report is returned when a screen on the parent chain of some option's
\* owning screen has no "screen.<name>" label (stated for files whose screen
\* names are recorded as declared, so that a label is missing only if the
\* language file lacks it).
C5_MissingScreenLabelFails ==
    (pc = "return" /\ NamesIntact) =>
        \A k \in OptionKeys : ChainLabelled(option_screen_names[k])

\* The failures the claim names, as the code raises them: missing shader and
\* unreadable files (ValueError), unowned option (KeyError), cyclic graph
\* (RecursionError).
NamedFailure ==
    err = << >> \/ err[1].type \in {"ValueError", "KeyError", "RecursionError"}

\* C7: a batch run ends only after every options file of the glob was attempted,
\* whatever failures the earlier files met.
C7_BatchAttemptsEveryFile ==
    (pc = "exit" /\ input_kind = "dir" /\ NamedFailure) => glob_left = 0

\* The screen keys of shaders.properties and the name each one declares.
ScreenKeys ==
    { k \in {shader_properties[i].key : i \in 1..Len(shader_properties)} :
        Len(k) >= 7 /\ SubSeq(k, 1, 7) = "screen." }

DeclaredName(k) == SubSeq(k, 8, Len(k))

\* C8: the recorded screen names are the screen keys without their first seven
\* characters.
C8_NameIsKeyWithoutPrefix ==
    GraphBuilt => RecordedScreens = {DeclaredName(k) : k \in ScreenKeys}

\* Positions of the recorded screens that list name among their children / options.
ChildListings(name) ==
    {i \in 1..Len(screen_properties) : name \in screen_properties[i].val.screen_names}

OptionListings(name) ==
    {i \in 1..Len(screen_properties) : name \in screen_properties[i].val.options}

Last(positions) == CHOOSE i \in positions : \A j \in positions : j <= i

\* C9: parentOf holds exactly the names some screen lists as [child] and maps each
\* to the last listing screen in the order of the screen definitions; ownerOf
\* likewise for options; every value is a recorded screen.
C9_ReverseIndexLastWriterWins ==
    GraphBuilt =>
        /\ DOMAIN screen_screen_names =
              UNION {screen_properties[i].val.screen_names : i \in 1..Len(screen_properties)}
        /\ DOMAIN option_screen_names =
              UNION {screen_properties[i].val.options : i \in 1..Len(screen_properties)}
        /\ \A c \in DOMAIN screen_screen_names :
              /\ screen_screen_names[c] = screen_properties[Last(ChildListings(c))].key
              /\ screen_screen_names[c] \in RecordedScreens
        /\ \A o \in DOMAIN option_screen_names :
              /\ option_screen_names[o] = screen_properties[Last(OptionListings(o))].key
              /\ option_screen_names[o] \in RecordedScreens

\* C9 witness: a child listed by two screens and an option listed by two screens.
C9_Witness ==
    /\ GraphBuilt
    /\ \E c \in DOMAIN screen_screen_names : Cardinality(ChildListings(c)) = 2
    /\ \E o \in DOMAIN option_screen_names :
          /\ Cardinality(OptionListings(o)) = 2
          /\ option_screen_names[o] # screen_properties[1].key

\* The screen definitions of shaders.properties under their declared names.
IsScreenEntry(e) == Len(e.key) >= 7 /\ SubSeq(e.key, 1, 7) = "screen."

DeclaredScreens == SelectSeq(shader_properties, IsScreenEntry)

DeclaredChildren(i) == parse_screen_property(DeclaredScreens[i].val).screen_names

DeclaredOptions(i) == parse_screen_property(DeclaredScreens[i].val).options

DeclaredParentOf ==
    [c \in UNION {DeclaredChildren(i) : i \in 1..Len(DeclaredScreens)} |->
        DeclaredName(DeclaredScreens[
            Last({i \in 1..Len(DeclaredScreens) : c \in DeclaredChildren(i)})].key)]

DeclaredOwnerOf ==
    [o \in UNION {DeclaredOptions(i) : i \in 1..Len(DeclaredScreens)} |->
        DeclaredName(DeclaredScreens[
            Last({i \in 1..Len(DeclaredScreens) : o \in DeclaredOptions(i)})].key)]

\* Every option is owned, its owner reaches no cycle, and the option and every
\* screen up to the root have a label.
WellFormedInput ==
    \A k \in OptionKeys :
        /\ k \in DOMAIN DeclaredOwnerOf
        /\ ("option." \o k) \in DOMAIN shader_lang_properties
        /\ ~ReachesCycleIn(DeclaredParentOf, DeclaredOwnerOf[k])
        /\ \A n \in 0..DepthIn(DeclaredParentOf, DeclaredOwnerOf[k]) :
              ("screen." \o AncestorIn(DeclaredParentOf, DeclaredOwnerOf[k], n)[1])
                  \in DOMAIN shader_lang_properties

RECURSIVE ExpectedReportFrom(_)
ExpectedReportFrom(i) ==
    IF i > Len(shader_options_properties) THEN ""
    ELSE LET item == shader_options_properties[i] IN
         shader_lang_properties["option." \o item.key] \o " ("
         \o JoinArrow(ChainLabelsIn(DeclaredParentOf, DeclaredOwnerOf[item.key]))
         \o "): " \o item.val \o "\n" \o ExpectedReportFrom(i + 1)

\* C6: for well-formed input the call does not raise and returns, in the order of
\* the option keys, one line "<label> (<path>): <value>" per option.
C6_ReportOfWellFormedInput ==
    (GraphBuilt /\ WellFormedInput) =>
        /\ pc # "raise"
        /\ pc = "return" => output[1] = ExpectedReportFrom(1)

Blank == {" ", "\t"}

\* The maximal runs of non-blank characters of s.
Tokens(s) ==
    { SubSeq(s, i, j) : <<i, j>> \in
        { ij \in (1..Len(s)) \X (1..Len(s)) :
            /\ ij[1] <= ij[2]
            /\ \A k \in ij[1]..ij[2] : SubSeq(s, k, k) \notin Blank
            /\ ij[1] = 1 \/ SubSeq(s, ij[1] - 1, ij[1] - 1) \in Blank
            /\ ij[2] = Len(s) \/ SubSeq(s, ij[2] + 1, ij[2] + 1) \in Blank } }

Wrapped(t, open, close) ==
    SubSeq(t, 1, 1) = open /\ SubSeq(t, Len(t), Len(t)) = close

\* C10: every whitespace-separated token is classified into exactly one class:
\* [..] gives its inner text as a child screen, <..> is dropped, any other token
\* is an option as it stands; no tokens give two empty sets.
C10_TokenClassification ==
    pc = "parsed" =>
        LET toks == Tokens(screen_property) IN
        /\ parsed[1].screen_names =
              { SubSeq(t, 2, Len(t) - 1) : t \in {u \in toks : Wrapped(u, "[", "]")} }
        /\ parsed[1].options =
              { t \in toks : ~Wrapped(t, "[", "]") /\ ~Wrapped(t, "<", ">") }
        /\ toks = {} => (parsed[1].screen_names = {} /\ parsed[1].options = {})

\* C10 witness: a bracketed token beside a lone "<", which stays an option.
C10_Witness ==
    /\ pc = "parsed"
    /\ parsed[1].screen_names = {"a"}
    /\ parsed[1].options = {"<"}

=============================================================================
